---- MODULE Spec2Model ----
(***************************************************************************)
(* Model of the trading gateway: TradingClient (src/client.py) on top of   *)
(* BinanceClient and BybitClient (src/exchange/).  One invocation of       *)
(* get_best_price or place_order is one action; the exchanges' HTTP        *)
(* answers are the inputs of the invocation.  The trace of adapter calls   *)
(* made by the invocation is kept in `log`, its result in `outcome`.       *)
(***************************************************************************)
EXTENDS Integers, Sequences, FiniteSets, TLC

VARIABLES config, client, served, call, env, log, wire, outcome

vars == <<config, client, served, call, env, log, wire, outcome>>

(***************************************************************************)
(* Python values, tagged by type so that None, floats, strings, lists and  *)
(* dicts stay distinct.  A float is represented by an integer number.      *)
(***************************************************************************)
PyNone == [t |-> "NoneType"]
PyFloat(x) == [t |-> "float", v |-> x]
PyStr(s) == [t |-> "str", v |-> s]
PyList(s) == [t |-> "list", v |-> s]
PyDict(d) == [t |-> "dict", v |-> d]
PyTuple(s) == [t |-> "tuple", v |-> s]
PyInt(n) == [t |-> "int", v |-> n]
EmptyDict == PyDict([k \in {} |-> PyNone])
Dict1(k, x) == PyDict([i \in {k} |-> x])

\* The result of evaluating an expression or a call: a value or an exception.
Return(x) == [kind |-> "return", v |-> x]
Raise(type, msg) == [kind |-> "raise", v |-> [t |-> "exception", type |-> type, msg |-> msg]]
IsReturn(r) == r.kind = "return"
IsRaise(r) == r.kind = "raise"

\* Evaluate v once, then continue with its value (a local variable assignment).
With(v, Rest(_)) == CHOOSE y \in {Rest(x) : x \in {v}} : TRUE

(***************************************************************************)
(* Bounds of the model.                                                    *)
(***************************************************************************)
\* Number of distinct prices an exchange can quote.
MaxPrice == 2
\* Largest order quantity tried (quantities range over -1 .. MaxQuantity).
MaxQuantity == 1
\* Longest result list in a Bybit ticker response.
MaxListLen == 1
\* Number of distinct readings of the clock (time.time() in milliseconds).
MaxTime == 1

Prices == 1..MaxPrice

\* Decimal strings the exchanges send for the number p: "p.0" and "p.00".
\* Two spellings of every number, so that parsing is not the identity.
PriceForms == {".0", ".00"}
PriceString(p, form) == ToString(p) \o form
PriceStrings == {PriceString(p, f) : p \in Prices, f \in PriceForms}
\* A string that is not a number.
BadString == "abc"

\* The number a decimal string denotes.
ParseFloat(s) == CHOOSE p \in Prices : \E f \in PriceForms : s = PriceString(p, f)

\* float(x): a float stays itself, a numeric string is parsed, any other
\* string is a ValueError, None (or a container) is a TypeError.
float(x) ==
    IF x.t = "float" THEN Return(x)
    ELSE IF x.t = "str"
         THEN IF x.v \in PriceStrings
              THEN Return(PyFloat(ParseFloat(x.v)))
              ELSE Raise("ValueError", "could not convert string to float")
         ELSE Raise("TypeError", "float() argument must be a string or a real number")

\* obj[key] for dicts (string keys) and lists (0-based integer index).
GetItem(obj, key) ==
    IF obj.t = "dict"
    THEN IF key \in DOMAIN obj.v THEN Return(obj.v[key]) ELSE Raise("KeyError", key)
    ELSE IF obj.t = "list"
         THEN IF key + 1 \in DOMAIN obj.v THEN Return(obj.v[key + 1])
              ELSE Raise("IndexError", "list index out of range")
         ELSE Raise("TypeError", "object is not subscriptable")

\* key in obj, for the dict bodies the exchanges return.
Contains(obj, key) ==
    IF obj.t = "dict" THEN Return(key \in DOMAIN obj.v)
    ELSE IF obj.t = "list" THEN Return(FALSE)
    ELSE Raise("TypeError", "argument is not iterable")

(***************************************************************************)
(* The exchanges.  An HTTP answer is a network failure, or a status code   *)
(* with a JSON body.                                                       *)
(***************************************************************************)
NetFailures == {"Timeout", "ConnectionError"}
Answer(net, status, body) == [net |-> net, status |-> status, body |-> body]
Failures == {Answer(n, 0, PyNone) : n \in NetFailures}
\* An answer with an error status carries an error body.
ErrorBody == Dict1("msg", PyStr("error"))
ErrorStatuses == {404}
HttpErrors == {Answer("ok", st, ErrorBody) : st \in ErrorStatuses}
\* A status that is neither 2xx nor an error for raise_for_status (a 300 Multiple
\* Choices that names no Location): requests hands the response over as it is.
OtherStatuses == {300}

\* Values of a price field: null, a decimal string, or a string that is no number.
PriceLeaves == {PyNone} \cup {PyStr(s) : s \in PriceStrings \cup {BadString}}

\* Binance ticker bodies: {} and {"price": leaf}.
BinancePriceBodies == {EmptyDict} \cup {Dict1("price", x) : x \in PriceLeaves}
BinancePriceAnswers ==
    Failures \cup HttpErrors \cup {Answer("ok", 200, b) : b \in BinancePriceBodies}
    \cup {Answer("ok", st, Dict1("price", PyStr(PriceString(1, ".0")))) : st \in OtherStatuses}

\* Bybit ticker bodies: {}, {"result": {}}, {"result": {"list": [entry, ...]}}
\* with entries {} and {"lastPrice": leaf}.
BybitEntries == {EmptyDict} \cup {Dict1("lastPrice", x) : x \in PriceLeaves}
\* The lists: empty, or a first entry (the one get_best_price reads) of any
\* kind followed by further entries, up to MaxListLen entries in all.
FurtherEntry == Dict1("lastPrice", PyStr(PriceString(MaxPrice, ".0")))
BybitLists ==
    {PyList(<<>>)}
    \cup {PyList([i \in 1..k |-> IF i = 1 THEN e ELSE FurtherEntry]) :
             e \in BybitEntries, k \in 1..MaxListLen}
BybitPriceBodies ==
    {EmptyDict, Dict1("result", EmptyDict)} \cup {Dict1("result", Dict1("list", l)) : l \in BybitLists}
BybitPriceAnswers ==
    Failures \cup HttpErrors \cup {Answer("ok", 200, b) : b \in BybitPriceBodies}
    \cup {Answer("ok", st, EmptyDict) : st \in OtherStatuses}

\* Order answers: the exchange's opaque order payload, or a failure.
OrderBody(id) == Dict1("orderId", PyStr(id))
BinanceOrderAnswers ==
    {Answer("Timeout", 0, PyNone)} \cup HttpErrors
    \cup {Answer("ok", 200, OrderBody("12345"))}
BybitOrderAnswers ==
    {Answer("ConnectionError", 0, PyNone)} \cup HttpErrors
    \cup {Answer("ok", 200, OrderBody("54321"))}

\* Whether private_key.sign succeeds, and the readings of the clock.
SignOutcomes == {"ok", "error"}
Times == 1..MaxTime

(***************************************************************************)
(* The adapters.                                                           *)
(***************************************************************************)
\* requests.get/post raise on a network failure, raise_for_status raises
\* HTTPError for a 4xx/5xx status, response.json() is returned otherwise.
\* Every except clause of _send_request logs and re-raises.
HttpCall(answer) ==
    IF answer.net # "ok" THEN Raise(answer.net, "")
    ELSE IF answer.status >= 400 /\ answer.status < 600 THEN Raise("HTTPError", ToString(answer.status))
    ELSE Return(answer.body)

Binance_send_request(method, answer) == HttpCall(answer)

Bybit_send_request(method, answer) == HttpCall(answer)

\* BinanceClient.get_btcusdt_price(): float(data['price']), errors re-raised.
Binance_get_btcusdt_price(e) ==
    LET data == Binance_send_request("GET", e.binance_price) IN
    IF IsRaise(data) THEN data
    ELSE LET p == GetItem(data.v, "price") IN
         IF IsRaise(p) THEN p ELSE float(p.v)

\* BybitClient.get_price(symbol): the raw response, errors re-raised.
Bybit_get_price(symbol, e) == Bybit_send_request("GET", e.bybit_price)

\* An HTTP request as handed to requests.get / requests.post.
Request(adapter, method, endpoint, params) ==
    [adapter |-> adapter, method |-> method, endpoint |-> endpoint, params |-> params]

\* str.upper() on the side strings.
Upper(s) ==
    CASE s \in {"Buy", "BUY", "buy"} -> "BUY"
      [] s \in {"Sell", "SELL", "sell"} -> "SELL"
      [] s \in {"Hold", "hold"} -> "HOLD"

\* The request of BinanceClient.get_btcusdt_price(): the symbol is a literal.
Binance_price_request ==
    Request("Binance", "GET", "/api/v3/ticker/price", PyDict([symbol |-> PyStr("BTCUSDT")]))

\* The request of BybitClient.get_price(symbol).
Bybit_price_request(symbol) ==
    Request("Bybit", "GET", "/v5/market/tickers", PyStr("category=spot&symbol=" \o symbol))

\* Order parameters that carry the side as the caller wrote it.
Binance_order_params_asgiven(symbol, side, quantity, e) ==
    [symbol |-> PyStr(symbol), side |-> PyStr(side), type |-> PyStr("MARKET"),
     quantity |-> PyInt(quantity), timestamp |-> PyInt(e.now)]

\* The params dict of BinanceClient.place_order before it is signed.
Binance_order_params(symbol, side, quantity, e) ==
    [symbol |-> PyStr(symbol), side |-> PyStr(Upper(side)), type |-> PyStr("MARKET"),
     quantity |-> PyInt(quantity), timestamp |-> PyInt(e.now)]

\* The payload '&'.join(f'{param}={value}') that _sign_request signs.
Binance_payload(params) ==
    "symbol=" \o params.symbol.v \o "&side=" \o params.side.v \o "&type=" \o params.type.v
    \o "&quantity=" \o ToString(params.quantity.v) \o "&timestamp=" \o ToString(params.timestamp.v)

\* A _sign_request that answers an empty signature when signing fails.
Binance_sign_request_swallow(params, e) ==
    IF e.sign = "ok" THEN Return(PyStr("signature(" \o Binance_payload(params) \o ")"))
    ELSE Return(PyStr(""))

\* BinanceClient._sign_request(params): the base64 signature of the payload,
\* or the error of private_key.sign, logged and re-raised.
Binance_sign_request(params, e) ==
    IF e.sign = "ok" THEN Return(PyStr("signature(" \o Binance_payload(params) \o ")"))
    ELSE Raise("Exception", "Signing error")

\* The request of BinanceClient.place_order once params['signature'] is set.
Binance_order_request(symbol, side, quantity, e) ==
    LET params == Binance_order_params(symbol, side, quantity, e) IN
    Request("Binance", "POST", "/api/v3/order",
            PyDict([k \in DOMAIN params \cup {"signature"} |->
                       IF k = "signature" THEN Binance_sign_request(params, e).v ELSE params[k]]))

\* The request of BybitClient.place_order: the JSON object its params string
\* denotes (str(qty) for the quantity, a fresh uuid for the orderLinkId).
Bybit_order_request(symbol, side, qty) ==
    Request("Bybit", "POST", "/v5/order/create",
            PyDict([category |-> PyStr("linear"), symbol |-> PyStr(symbol), side |-> PyStr(side),
                    positionIdx |-> PyInt(0), orderType |-> PyStr("Market"),
                    qty |-> PyStr(ToString(qty)), timeInForce |-> PyStr("GTC"),
                    orderLinkId |-> PyStr("uuid4")]))

\* BinanceClient.place_order(symbol, side, quantity): sign, then send.
Binance_place_order(symbol, side, quantity, e) ==
    IF IsRaise(Binance_sign_request(Binance_order_params(symbol, side, quantity, e), e))
    THEN Binance_sign_request(Binance_order_params(symbol, side, quantity, e), e)
    ELSE Binance_send_request("POST", e.binance_order)

\* BybitClient.place_order(symbol, side, qty).
Bybit_place_order(symbol, side, qty, e) == Bybit_send_request("POST", e.bybit_order)

\* The HTTP requests one adapter call of the trace sends, in order.
RequestsOf(entry, e) ==
    IF entry.callee = "Binance" /\ entry.method = "get_btcusdt_price" THEN <<Binance_price_request>>
    ELSE IF entry.callee = "Bybit" /\ entry.method = "get_price"
    THEN <<Bybit_price_request(entry.args[1])>>
    ELSE IF entry.callee = "Binance" /\ entry.method = "place_order"
    THEN IF IsRaise(Binance_sign_request(
                 Binance_order_params(entry.args[1], entry.args[2], entry.args[3], e), e))
         THEN <<>>
         ELSE <<Binance_order_request(entry.args[1], entry.args[2], entry.args[3], e)>>
    ELSE IF entry.callee = "Bybit" /\ entry.method = "place_order"
    THEN <<Bybit_order_request(entry.args[1], entry.args[2], entry.args[3])>>
    ELSE <<>>

(***************************************************************************)
(* TradingClient.get_best_price                                            *)
(***************************************************************************)
\* An entry of the trace of calls made during one invocation.
CallTo(callee, method, args) == [callee |-> callee, method |-> method, args |-> args]

\* Python's order on the exchange names: 'Binance' < 'Bybit' ('i' < 'y').
NameOrder == <<"Binance", "Bybit">>
NameIndex(n) == CHOOSE i \in DOMAIN NameOrder : NameOrder[i] = n
StrLess(a, b) == NameIndex(a) < NameIndex(b)

\* An order on the tuples that looks at the price only.
TupleLessByPrice(a, b) == a[1].v < b[1].v
\* Python's order on (price, name) tuples: by price, then by name.
TupleLess(a, b) == a[1].v < b[1].v \/ (a[1].v = b[1].v /\ StrLess(a[2], b[2]))

\* The generator `(price, name) for price, name in [...] if price is not None`.
RECURSIVE Present(_)
Present(pairs) ==
    IF pairs = <<>> THEN <<>>
    ELSE IF Head(pairs)[1] # PyNone
         THEN <<Head(pairs)>> \o Present(Tail(pairs))
         ELSE Present(Tail(pairs))

\* min(iterable): the first smallest item; ValueError when there is none.
RECURSIVE MinFrom(_, _)
MinFrom(best, rest) ==
    IF rest = <<>> THEN best
    ELSE MinFrom(IF TupleLess(Head(rest), best) THEN Head(rest) ELSE best, Tail(rest))
PyMin(items) ==
    IF items = <<>> THEN Raise("ValueError", "min() arg is an empty sequence")
    ELSE Return(MinFrom(Head(items), Tail(items)))

\* max(iterable): the first largest item; ValueError when there is none.
RECURSIVE MaxFrom(_, _)
MaxFrom(best, rest) ==
    IF rest = <<>> THEN best
    ELSE MaxFrom(IF TupleLess(best, Head(rest)) THEN Head(rest) ELSE best, Tail(rest))
\* A max that compares the prices only and keeps the first of the largest.
PyMaxFirst(items) ==
    IF items = <<>> THEN Raise("ValueError", "max() arg is an empty sequence")
    ELSE Return(items[CHOOSE i \in DOMAIN items :
                    /\ \A j \in DOMAIN items : items[j][1].v <= items[i][1].v
                    /\ \A j \in DOMAIN items : j < i => items[j][1].v < items[i][1].v])
PyMax(items) ==
    IF items = <<>> THEN Raise("ValueError", "max() arg is an empty sequence")
    ELSE Return(MaxFrom(Head(items), Tail(items)))

\* bybit_price_data['result']['list'][0]['lastPrice']
BybitLastPrice(data) ==
    LET r == GetItem(data, "result") IN
    IF IsRaise(r) THEN r
    ELSE LET l == GetItem(r.v, "list") IN
         IF IsRaise(l) THEN l
         ELSE LET x == GetItem(l.v, 0) IN
              IF IsRaise(x) THEN x ELSE GetItem(x.v, "lastPrice")

\* The conditional expression that turns the Bybit response into a float or None.
BybitPrice(data) ==
    LET has == Contains(data, "result") IN
    IF IsRaise(has) THEN has
    ELSE IF ~has.v THEN Return(PyNone)
    ELSE LET leaf == BybitLastPrice(data) IN
         IF IsRaise(leaf) THEN leaf
         ELSE IF leaf.v # PyNone THEN float(leaf.v) ELSE Return(PyNone)

\* The selection among the present prices, by price_type.
BestOf(binance_price, bybit_price, price_type) ==
    LET present == Present(<<<<binance_price, "Binance">>, <<bybit_price, "Bybit">>>>) IN
    IF price_type = "lowest" THEN PyMin(present)
    ELSE IF price_type = "highest" THEN PyMax(present)
    ELSE Raise("ValueError", "Invalid price_type. Use 'lowest' or 'highest'.")

\* A get_best_price that treats a failed Bybit query as a missing price.
get_best_price_degrade(symbol, price_type, e) ==
    LET log1 == <<CallTo("Binance", "get_btcusdt_price", <<>>)>>
        log2 == Append(log1, CallTo("Bybit", "get_price", <<symbol>>))
    IN  With(Binance_get_btcusdt_price(e), LAMBDA b :
        IF IsRaise(b) THEN [out |-> b, log |-> log1] ELSE
        With(Bybit_get_price(symbol, e), LAMBDA data :
        With(IF IsRaise(data) THEN Return(PyNone) ELSE BybitPrice(data.v), LAMBDA bybit_price :
        IF IsRaise(bybit_price) THEN [out |-> bybit_price, log |-> log2] ELSE
        With(BestOf(b.v, bybit_price.v, price_type), LAMBDA best :
        IF IsRaise(best) THEN [out |-> best, log |-> log2] ELSE
        [out |-> Return(PyTuple(<<best.v[1], PyStr(best.v[2])>>)), log |-> log2]))))

\* A get_best_price that queries both exchanges before it looks at either answer.
get_best_price_eager(symbol, price_type, e) ==
    LET log1 == <<CallTo("Binance", "get_btcusdt_price", <<>>)>>
        log2 == Append(log1, CallTo("Bybit", "get_price", <<symbol>>))
    IN  With(Binance_get_btcusdt_price(e), LAMBDA b :
        IF IsRaise(b) THEN [out |-> b, log |-> log2] ELSE
        With(float(b.v), LAMBDA binance_price :
        IF IsRaise(binance_price) THEN [out |-> binance_price, log |-> log2] ELSE
        With(Bybit_get_price(symbol, e), LAMBDA data :
        IF IsRaise(data) THEN [out |-> data, log |-> log2] ELSE
        With(BybitPrice(data.v), LAMBDA bybit_price :
        IF IsRaise(bybit_price) THEN [out |-> bybit_price, log |-> log2] ELSE
        With(BestOf(binance_price.v, bybit_price.v, price_type), LAMBDA best :
        IF IsRaise(best) THEN [out |-> best, log |-> log2] ELSE
        [out |-> Return(PyTuple(<<best.v[1], PyStr(best.v[2])>>)), log |-> log2])))))

\* A get_best_price that names the exchange in lower case.
get_best_price_lowercase(symbol, price_type, e) ==
    LET log1 == <<CallTo("Binance", "get_btcusdt_price", <<>>)>>
        log2 == Append(log1, CallTo("Bybit", "get_price", <<symbol>>))
    IN  With(Binance_get_btcusdt_price(e), LAMBDA b :
        IF IsRaise(b) THEN [out |-> b, log |-> log1] ELSE
        With(float(b.v), LAMBDA binance_price :
        IF IsRaise(binance_price) THEN [out |-> binance_price, log |-> log1] ELSE
        With(Bybit_get_price(symbol, e), LAMBDA data :
        IF IsRaise(data) THEN [out |-> data, log |-> log2] ELSE
        With(BybitPrice(data.v), LAMBDA bybit_price :
        IF IsRaise(bybit_price) THEN [out |-> bybit_price, log |-> log2] ELSE
        With(BestOf(binance_price.v, bybit_price.v, price_type), LAMBDA best :
        IF IsRaise(best) THEN [out |-> best, log |-> log2] ELSE
        [out |-> Return(PyTuple(<<best.v[1],
                                  PyStr(IF best.v[2] = "Binance" THEN "binance" ELSE "bybit")>>)),
         log |-> log2])))))

\* get_best_price(symbol, price_type): the result and the adapter calls made.
\* The statements of the try block in order; the except clause logs the
\* error and re-raises it unchanged.
get_best_price(symbol, price_type, e) ==
    LET log1 == <<CallTo("Binance", "get_btcusdt_price", <<>>)>>
        log2 == Append(log1, CallTo("Bybit", "get_price", <<symbol>>))
    IN  With(Binance_get_btcusdt_price(e), LAMBDA b :
        IF IsRaise(b) THEN [out |-> b, log |-> log1] ELSE
        With(float(b.v), LAMBDA binance_price :
        IF IsRaise(binance_price) THEN [out |-> binance_price, log |-> log1] ELSE
        With(Bybit_get_price(symbol, e), LAMBDA data :
        IF IsRaise(data) THEN [out |-> data, log |-> log2] ELSE
        With(BybitPrice(data.v), LAMBDA bybit_price :
        IF IsRaise(bybit_price) THEN [out |-> bybit_price, log |-> log2] ELSE
        With(BestOf(binance_price.v, bybit_price.v, price_type), LAMBDA best :
        IF IsRaise(best) THEN [out |-> best, log |-> log2] ELSE
        [out |-> Return(PyTuple(<<best.v[1], PyStr(best.v[2])>>)), log |-> log2])))))

(***************************************************************************)
(* TradingClient.place_order                                               *)
(***************************************************************************)
\* A lower() that leaves the string as it is.
LowerAsGiven(s) == s
\* str.lower() on the side strings.
Lower(s) ==
    CASE s \in {"Buy", "BUY", "buy"} -> "buy"
      [] s \in {"Sell", "SELL", "sell"} -> "sell"
      [] s \in {"Hold", "hold"} -> "hold"

InvalidSide == Raise("ValueError", "Invalid side. Side must be either 'Buy' or 'Sell'.")
InvalidExchange == Raise("ValueError", "Invalid exchange name. Use 'Binance' or 'Bybit'.")

\* The trace entry of place_order's own call of get_best_price.
BestPriceCall(symbol, price_type) == CallTo("self", "get_best_price", <<symbol, price_type>>)

\* A resolution that asks for the highest price to buy and the lowest to sell.
ResolveExchangeSwapped(side, symbol, exchange, e) ==
    IF exchange # PyNone THEN [out |-> Return(exchange), log |-> <<>>]
    ELSE LET price_type == IF Lower(side) = "buy" THEN "highest" ELSE "lowest" IN
         With(get_best_price(symbol, price_type, e), LAMBDA r :
         [out |-> IF IsRaise(r.out) THEN r.out ELSE Return(r.out.v.v[2]),
          log |-> <<BestPriceCall(symbol, price_type)>> \o r.log])

\* A resolution that falls back to Binance when no best price is obtained.
ResolveExchangeFallback(side, symbol, exchange, e) ==
    IF exchange # PyNone THEN [out |-> Return(exchange), log |-> <<>>]
    ELSE LET price_type == IF Lower(side) = "buy" THEN "lowest" ELSE "highest" IN
         With(get_best_price(symbol, price_type, e), LAMBDA r :
         [out |-> IF IsRaise(r.out) THEN Return(PyStr("Binance")) ELSE Return(r.out.v.v[2]),
          log |-> <<BestPriceCall(symbol, price_type)>> \o r.log])

\* A resolution that queries the prices even when the exchange is given.
ResolveExchangeAlwaysQuote(side, symbol, exchange, e) ==
    LET price_type == IF Lower(side) = "buy" THEN "lowest" ELSE "highest" IN
    With(get_best_price(symbol, price_type, e), LAMBDA r :
    [out |-> IF exchange # PyNone THEN Return(exchange)
             ELSE IF IsRaise(r.out) THEN r.out ELSE Return(r.out.v.v[2]),
     log |-> <<BestPriceCall(symbol, price_type)>> \o r.log])

\* The `if exchange is None` block: the exchange to use, with the calls made.
ResolveExchange(side, symbol, exchange, e) ==
    IF exchange # PyNone THEN [out |-> Return(exchange), log |-> <<>>]
    ELSE IF Lower(side) = "buy"
    THEN With(get_best_price(symbol, "lowest", e), LAMBDA r :
         [out |-> IF IsRaise(r.out) THEN r.out ELSE Return(r.out.v.v[2]),
          log |-> <<BestPriceCall(symbol, "lowest")>> \o r.log])
    ELSE IF Lower(side) = "sell"
    THEN With(get_best_price(symbol, "highest", e), LAMBDA r :
         [out |-> IF IsRaise(r.out) THEN r.out ELSE Return(r.out.v.v[2]),
          log |-> <<BestPriceCall(symbol, "highest")>> \o r.log])
    ELSE [out |-> InvalidSide, log |-> <<>>]

\* A dispatch that retries on Bybit when the order on Binance fails.
DispatchBoth(symbol, side, quantity, exchange, e) ==
    IF exchange = PyStr("Binance")
    THEN With(Binance_place_order(symbol, side, quantity, e), LAMBDA order :
         IF IsRaise(order)
         THEN [out |-> Bybit_place_order(symbol, side, quantity, e),
               log |-> <<CallTo("Binance", "place_order", <<symbol, side, quantity>>),
                         CallTo("Bybit", "place_order", <<symbol, side, quantity>>)>>]
         ELSE [out |-> order,
               log |-> <<CallTo("Binance", "place_order", <<symbol, side, quantity>>)>>])
    ELSE IF exchange = PyStr("Bybit")
    THEN [out |-> Bybit_place_order(symbol, side, quantity, e),
          log |-> <<CallTo("Bybit", "place_order", <<symbol, side, quantity>>)>>]
    ELSE [out |-> InvalidExchange, log |-> <<>>]

\* A dispatch that sends every exchange it does not know to Bybit.
DispatchDefault(symbol, side, quantity, exchange, e) ==
    IF exchange = PyStr("Binance")
    THEN [out |-> Binance_place_order(symbol, side, quantity, e),
          log |-> <<CallTo("Binance", "place_order", <<symbol, side, quantity>>)>>]
    ELSE [out |-> Bybit_place_order(symbol, side, quantity, e),
          log |-> <<CallTo("Bybit", "place_order", <<symbol, side, quantity>>)>>]

\* A dispatch that sends the order to the other exchange when the first fails.
DispatchFallback(symbol, side, quantity, exchange, e) ==
    IF exchange = PyStr("Binance")
    THEN IF IsRaise(Binance_place_order(symbol, side, quantity, e))
         THEN [out |-> Bybit_place_order(symbol, side, quantity, e),
               log |-> <<CallTo("Binance", "place_order", <<symbol, side, quantity>>),
                         CallTo("Bybit", "place_order", <<symbol, side, quantity>>)>>]
         ELSE [out |-> Binance_place_order(symbol, side, quantity, e),
               log |-> <<CallTo("Binance", "place_order", <<symbol, side, quantity>>)>>]
    ELSE IF exchange = PyStr("Bybit")
    THEN IF IsRaise(Bybit_place_order(symbol, side, quantity, e))
         THEN [out |-> Binance_place_order(symbol, side, quantity, e),
               log |-> <<CallTo("Bybit", "place_order", <<symbol, side, quantity>>),
                         CallTo("Binance", "place_order", <<symbol, side, quantity>>)>>]
         ELSE [out |-> Bybit_place_order(symbol, side, quantity, e),
               log |-> <<CallTo("Bybit", "place_order", <<symbol, side, quantity>>)>>]
    ELSE [out |-> InvalidExchange, log |-> <<>>]

\* The dispatch on the exchange name.
Dispatch(symbol, side, quantity, exchange, e) ==
    IF exchange = PyStr("Binance")
    THEN [out |-> Binance_place_order(symbol, side, quantity, e),
          log |-> <<CallTo("Binance", "place_order", <<symbol, side, quantity>>)>>]
    ELSE IF exchange = PyStr("Bybit")
    THEN [out |-> Bybit_place_order(symbol, side, quantity, e),
          log |-> <<CallTo("Bybit", "place_order", <<symbol, side, quantity>>)>>]
    ELSE [out |-> InvalidExchange, log |-> <<>>]

\* A place_order that reports the exchange along with the adapter's result.
place_order_wrap(side, quantity, symbol, exchange, e) ==
    IF side \notin {"Buy", "Sell"} THEN [out |-> InvalidSide, log |-> <<>>] ELSE
    With(ResolveExchange(side, symbol, exchange, e), LAMBDA x :
    IF IsRaise(x.out) THEN x ELSE
    With(Dispatch(symbol, side, quantity, x.out.v, e), LAMBDA d :
    [out |-> IF IsReturn(d.out) THEN Return(PyTuple(<<x.out.v, d.out.v>>)) ELSE d.out,
     log |-> x.log \o d.log]))

\* A place_order that refuses a quantity that is not strictly positive.
place_order_positive(side, quantity, symbol, exchange, e) ==
    IF side \notin {"Buy", "Sell"} THEN [out |-> InvalidSide, log |-> <<>>] ELSE
    IF quantity <= 0 THEN [out |-> Raise("ValueError", "Invalid quantity"), log |-> <<>>] ELSE
    With(ResolveExchange(side, symbol, exchange, e), LAMBDA x :
    IF IsRaise(x.out) THEN x ELSE
    With(Dispatch(symbol, side, quantity, x.out.v, e), LAMBDA d :
    [out |-> d.out, log |-> x.log \o d.log]))

\* A place_order that validates the side without regard to case.
place_order_anycase(side, quantity, symbol, exchange, e) ==
    IF Lower(side) \notin {"buy", "sell"} THEN [out |-> InvalidSide, log |-> <<>>] ELSE
    With(ResolveExchange(side, symbol, exchange, e), LAMBDA x :
    IF IsRaise(x.out) THEN x ELSE
    With(Dispatch(symbol, side, quantity, x.out.v, e), LAMBDA d :
    [out |-> d.out, log |-> x.log \o d.log]))

\* place_order(side, quantity, symbol, exchange): the result and the calls made.
\* The except clause logs the error and re-raises it unchanged.
place_order(side, quantity, symbol, exchange, e) ==
    IF side \notin {"Buy", "Sell"} THEN [out |-> InvalidSide, log |-> <<>>] ELSE
    With(ResolveExchange(side, symbol, exchange, e), LAMBDA x :
    IF IsRaise(x.out) THEN x ELSE
    With(Dispatch(symbol, side, quantity, x.out.v, e), LAMBDA d :
    [out |-> d.out, log |-> x.log \o d.log]))

(***************************************************************************)
(* The state machine: a client is constructed, then one of its methods is  *)
(* invoked with some arguments while the exchanges answer in some way.     *)
(***************************************************************************)
Symbols == {"BTCUSDT", "ETHUSDT"}
PriceTypes == {"lowest", "highest", "average"}
Sides == {"Buy", "Sell", "Hold", "BUY", "SELL", "buy", "sell"}
Quantities == -1..MaxQuantity
ExchangeArgs == {PyNone, PyStr("Binance"), PyStr("Bybit"), PyStr("Unknown")}

NoCall == [op |-> "none", symbol |-> "", price_type |-> "", side |-> "", quantity |-> 0, exchange |-> PyNone]
NoEnv == [binance_price |-> Answer("none", 0, PyNone), bybit_price |-> Answer("none", 0, PyNone),
          binance_order |-> Answer("none", 0, PyNone), bybit_order |-> Answer("none", 0, PyNone),
          sign |-> "none", now |-> 0]
NoOutcome == [kind |-> "none", v |-> PyNone]

\* The HTTP requests sent by the adapter calls of a trace, in order.
RECURSIVE Wire(_, _)
Wire(trace, e) ==
    IF trace = <<>> THEN <<>> ELSE RequestsOf(Head(trace), e) \o Wire(Tail(trace), e)

(***************************************************************************)
(* Construction.  The credentials come from the environment (.env) and the *)
(* private key from a file next to the Binance adapter.                    *)
(***************************************************************************)
\* Values of an environment variable: unset, empty, set.
EnvValues(set) == {PyNone, PyStr("")} \cup {PyStr(x) : x \in set}
\* The password is encoded to UTF-8 as soon as it is read; a value with a lone
\* surrogate cannot be encoded (UnicodeEncodeError, a subclass of ValueError).
Unencodable == PyStr("\\udc80")
KeyFiles == {"missing", "unreadable", "ok"}
Configs ==
    [binance_api_key : EnvValues({"key"}), binance_password : EnvValues({"password", "wrongpassword"}) \cup {Unencodable},
     key_file : KeyFiles, bybit_api_key : EnvValues({"key"}), bybit_api_secret : EnvValues({"secret"})]

\* Python's truth value of an optional string: None and '' are false.
Truthy(x) == x # PyNone /\ x # PyStr("")

IsValueError(type) == type \in {"ValueError", "UnicodeEncodeError"}

\* A BinanceClient that loads the key without asking for the key password.
Binance_init_nopassword(cfg) ==
    IF cfg.binance_password = Unencodable THEN Raise("UnicodeEncodeError", "surrogates not allowed")
    ELSE IF ~Truthy(cfg.binance_api_key) THEN Raise("ValueError", "API key must be set in the .env file")
    ELSE IF cfg.key_file = "missing" THEN Raise("ValueError", "Private key file not found")
    ELSE IF cfg.key_file = "unreadable" THEN Raise("ValueError", "Error loading private key")
    ELSE Return(PyStr("BinanceClient"))
\* BinanceClient.__init__: the client, or the error of the first step that fails.
Binance_init(cfg) ==
    IF cfg.binance_password = Unencodable THEN Raise("UnicodeEncodeError", "surrogates not allowed")
    ELSE IF ~Truthy(cfg.binance_api_key) THEN Raise("ValueError", "API key must be set in the .env file")
    ELSE IF ~Truthy(cfg.binance_password)
    THEN Raise("ValueError", "Private key password must be set in the .env file")
    ELSE IF cfg.key_file = "missing" THEN Raise("ValueError", "Private key file not found")
    ELSE IF cfg.key_file = "unreadable" \/ cfg.binance_password # PyStr("password")
    THEN Raise("ValueError", "Error loading private key")
    ELSE Return(PyStr("BinanceClient"))

\* BybitClient.__init__: the client, or the ValueError of the first check that fails.
Bybit_init(cfg) ==
    IF ~Truthy(cfg.bybit_api_key) THEN Raise("ValueError", "API key must be set in the .env file")
    ELSE IF ~Truthy(cfg.bybit_api_secret)
    THEN Raise("ValueError", "Secret key password must be set in the .env file")
    ELSE Return(PyStr("BybitClient"))

\* TradingClient.__init__: the two adapters are created; nothing else is kept.
NewClient == [binance_client |-> "BinanceClient", bybit_client |-> "BybitClient"]
\* No client: the constructor raised.
NoClient == [binance_client |-> "none", bybit_client |-> "none"]

\* TradingClient(testnet): the Binance adapter first, then the Bybit adapter;
\* an error of either constructor leaves the caller without a client.
TradingClient_init(cfg) ==
    IF IsRaise(Binance_init(cfg)) THEN Binance_init(cfg)
    ELSE IF IsRaise(Bybit_init(cfg)) THEN Bybit_init(cfg)
    ELSE Return([binance_client |-> Binance_init(cfg).v.v, bybit_client |-> Bybit_init(cfg).v.v])

\* The state a construction under configuration cfg leaves.
Constructed(cfg) ==
    \E r \in {TradingClient_init(cfg)} :
        /\ client' = IF IsReturn(r) THEN r.v ELSE NoClient
        /\ outcome' = IF IsReturn(r) THEN NoOutcome ELSE r

Init ==
    /\ config \in Configs
    /\ \E r \in {TradingClient_init(config)} :
          /\ client = (IF IsReturn(r) THEN r.v ELSE NoClient)
          /\ outcome = (IF IsReturn(r) THEN NoOutcome ELSE r)
    /\ served = 0
    /\ call = NoCall
    /\ env = NoEnv
    /\ log = <<>>
    /\ wire = <<>>

\* A fresh TradingClient is constructed (as before every use in the tests).
Construct ==
    /\ call.op # "none"
    /\ Constructed(config)
    /\ served' = 0
    /\ call' = NoCall
    /\ env' = NoEnv
    /\ log' = <<>>
    /\ wire' = <<>>
    /\ UNCHANGED config

\* One invocation client.get_best_price(symbol, price_type) while the price
\* endpoints answer bp and yp: what it leaves behind.  The method assigns no
\* attribute of the client or of its adapters.
GetBestPriceCall(symbol, price_type, bp, yp) ==
    \E e \in {[NoEnv EXCEPT !.binance_price = bp, !.bybit_price = yp]} :
    \E r \in {get_best_price(symbol, price_type, e)} :
        /\ call' = [NoCall EXCEPT !.op = "get_best_price", !.symbol = symbol,
                                  !.price_type = price_type]
        /\ env' = e
        /\ log' = r.log
        /\ wire' = Wire(r.log, e)
        /\ outcome' = r.out
        /\ served' = served + 1
        /\ UNCHANGED <<config, client>>

\* One invocation client.place_order(side, quantity, symbol, exchange) while
\* the endpoints answer bp, yp, bo, yo, signing does sg and the clock reads now.
PlaceOrderCall(side, quantity, symbol, exchange, bp, yp, bo, yo, sg, now) ==
    \E e \in {[binance_price |-> bp, bybit_price |-> yp,
               binance_order |-> bo, bybit_order |-> yo,
               sign |-> sg, now |-> now]} :
    \E r \in {place_order(side, quantity, symbol, exchange, e)} :
        /\ call' = [NoCall EXCEPT !.op = "place_order", !.side = side,
                                  !.quantity = quantity, !.symbol = symbol,
                                  !.exchange = exchange]
        /\ env' = e
        /\ log' = r.log
        /\ wire' = Wire(r.log, e)
        /\ outcome' = r.out
        /\ served' = served + 1
        /\ UNCHANGED <<config, client>>

\* client.get_best_price(symbol, price_type) on a fresh client
GetBestPrice ==
    /\ call.op = "none"
    /\ client # NoClient
    /\ \E symbol \in Symbols, price_type \in PriceTypes,
          bp \in BinancePriceAnswers, yp \in BybitPriceAnswers :
          GetBestPriceCall(symbol, price_type, bp, yp)

\* client.place_order(side, quantity, symbol, exchange) on a fresh client
PlaceOrder ==
    /\ call.op = "none"
    /\ client # NoClient
    /\ \E side \in Sides, quantity \in Quantities, symbol \in Symbols,
          exchange \in ExchangeArgs,
          bp \in BinancePriceAnswers, yp \in BybitPriceAnswers,
          bo \in BinanceOrderAnswers, yo \in BybitOrderAnswers,
          sg \in SignOutcomes, now \in Times :
          PlaceOrderCall(side, quantity, symbol, exchange, bp, yp, bo, yo, sg, now)

Next == Construct \/ GetBestPrice \/ PlaceOrder

Spec == Init /\ [][Next]_vars

(***************************************************************************)
(* A session: one client serves call after call.  The calls are the same   *)
(* invocations as above, on a client that has served calls before, for a   *)
(* part of the arguments and answers: a failing and two quoting answers    *)
(* per ticker, a failing and an accepting answer per order endpoint.       *)
(***************************************************************************)
MaxCalls == 2
SessionPrices == {PriceString(1, ".0"), PriceString(MaxPrice, ".0")}
SessionSides == {"Buy", "Sell", "Hold"}
SessionBinancePrices ==
    {a \in BinancePriceAnswers :
        \/ a.net = "Timeout"
        \/ a.status = 200 /\ \E x \in SessionPrices : a.body = Dict1("price", PyStr(x))}
SessionBybitPrices ==
    {a \in BybitPriceAnswers :
        \/ a.status = 404
        \/ a.status = 200 /\ \E x \in SessionPrices :
              a.body = Dict1("result", Dict1("list", PyList(<<Dict1("lastPrice", PyStr(x))>>)))}
SessionBinanceOrders == {a \in BinanceOrderAnswers : a.net # "ok" \/ a.status = 200}
SessionBybitOrders == {a \in BybitOrderAnswers : a.net # "ok" \/ a.status = 200}

\* client.get_best_price(symbol, price_type) on a client in whatever state
\* its earlier calls left it.
GetBestPriceAgain ==
    /\ client # NoClient
    /\ served < MaxCalls
    /\ \E price_type \in PriceTypes, bp \in SessionBinancePrices, yp \in SessionBybitPrices :
          GetBestPriceCall("BTCUSDT", price_type, bp, yp)

\* client.place_order(side, quantity, symbol, exchange) on such a client.
PlaceOrderAgain ==
    /\ client # NoClient
    /\ served < MaxCalls
    /\ \E side \in SessionSides, exchange \in ExchangeArgs,
          bp \in SessionBinancePrices, yp \in SessionBybitPrices,
          bo \in SessionBinanceOrders, yo \in SessionBybitOrders,
          sg \in SignOutcomes, now \in Times :
          PlaceOrderCall(side, 1, "BTCUSDT", exchange, bp, yp, bo, yo, sg, now)

NextSession == Construct \/ GetBestPriceAgain \/ PlaceOrderAgain

SpecSession == Init /\ [][NextSession]_vars

(***************************************************************************)
(* Vocabulary of the properties.                                           *)
(***************************************************************************)
IsGetBestPrice == call.op = "get_best_price"
IsPlaceOrder == call.op = "place_order"
ValidSide == call.side \in {"Buy", "Sell"}
ValidPriceType == call.price_type \in {"lowest", "highest"}

\* The positions of the trace at which `method` is called.
CallsOf(method) == {i \in DOMAIN log : log[i].method = method}
\* The positions of the trace at which an adapter is called.
AdapterCalls == {i \in DOMAIN log : log[i].callee \in {"Binance", "Bybit"}}
\* The positions of the trace at which a price is queried on an adapter.
PriceQueries == {i \in DOMAIN log : log[i].method \in {"get_btcusdt_price", "get_price"}}

\* What each adapter's price query gives in the current environment, and the
\* price (a float or None) the response of Bybit is normalized to.
BinanceQuery == Binance_get_btcusdt_price(env)
BybitQuery == Bybit_get_price(call.symbol, env)
BybitNormalized == BybitPrice(BybitQuery.v)

\* Both adapters answered and both answers were normalized to a price or None.
Normalized == IsReturn(BinanceQuery) /\ IsReturn(BybitQuery) /\ IsReturn(BybitNormalized)
\* The price and the exchange name of a returned best-price tuple.
ReturnedPrice == outcome.v.v[1].v
ReturnedExchange == outcome.v.v[2].v

\* The price_type place_order asks for: 'lowest' to buy, 'highest' to sell.
WantedPriceType == IF call.side = "Buy" THEN "lowest" ELSE "highest"
\* What get_best_price gives for that price_type in the current environment.
Resolution == get_best_price(call.symbol, WantedPriceType, env).out
AutoRouted == IsPlaceOrder /\ call.exchange = PyNone /\ ValidSide

\* C2: place_order without an exchange calls get_best_price once, with
\* 'lowest' for Buy and 'highest' for Sell, before any order placement, and
\* then places the order on exactly the exchange get_best_price returned.
C2_AutoRouteFollowsBestPrice ==
    AutoRouted =>
        /\ CallsOf("get_best_price") = {1}
        /\ log[1] = CallTo("self", "get_best_price", <<call.symbol, WantedPriceType>>)
        /\ \A i \in CallsOf("place_order") : i > 1
        /\ IsReturn(Resolution) =>
              /\ CallsOf("place_order") = {Len(log)}
              /\ log[Len(log)].callee = Resolution.v.v[2].v

\* A Sell without an exchange, Bybit quoting more, is placed on Bybit.
C2_Witness ==
    /\ AutoRouted /\ call.side = "Sell"
    /\ IsReturn(Resolution) /\ Resolution.v.v[2].v = "Bybit"
    /\ Normalized /\ BybitNormalized.v # PyNone /\ BybitNormalized.v.v > BinanceQuery.v.v
    /\ log[Len(log)] = CallTo("Bybit", "place_order", <<call.symbol, "Sell", call.quantity>>)

\* C3: a place_order invocation never makes more than one adapter
\* place_order call, and one that returns a result has made exactly one.
C3_AtMostOneOrderPlaced ==
    IsPlaceOrder =>
        /\ Cardinality(CallsOf("place_order")) <= 1
        /\ IsReturn(outcome) => Cardinality(CallsOf("place_order")) = 1

\* An auto-routed order returned after price queries and one placement.
C3_Witness ==
    /\ AutoRouted /\ IsReturn(outcome)
    /\ Cardinality(CallsOf("place_order")) = 1 /\ Len(log) = 4

\* C4: place_order with a side other than 'Buy' or 'Sell' fails with the
\* invalid-side error for every exchange argument, and makes no adapter
\* call and no get_best_price call.
C4_InvalidSideRejected ==
    (IsPlaceOrder /\ ~ValidSide) => (outcome = InvalidSide /\ log = <<>>)

\* 'BUY' without an exchange is rejected before any price is queried.
C4_Witness ==
    IsPlaceOrder /\ call.side = "BUY" /\ call.exchange = PyNone /\ outcome = InvalidSide

\* C5: place_order with a valid side and an explicit exchange other than
\* 'Binance' and 'Bybit' fails with the invalid-exchange error and makes
\* no adapter call.
C5_InvalidExchangeRejected ==
    (IsPlaceOrder /\ ValidSide /\ call.exchange \notin {PyNone, PyStr("Binance"), PyStr("Bybit")}) =>
        (outcome = InvalidExchange /\ log = <<>>)

\* A Buy on exchange 'Unknown' is rejected although both exchanges would answer.
C5_Witness ==
    /\ IsPlaceOrder /\ call.side = "Buy" /\ call.exchange = PyStr("Unknown")
    /\ outcome = InvalidExchange
    /\ env.binance_order.status = 200 /\ env.bybit_order.status = 200

\* C6: when an adapter's price query fails during get_best_price, then
\* get_best_price raises that very error and returns no result, whatever
\* the other adapter answers.
C6_QueryFailurePropagates ==
    IsGetBestPrice =>
        /\ IsRaise(BinanceQuery) => outcome = BinanceQuery
        /\ (IsReturn(BinanceQuery) /\ IsRaise(BybitQuery)) => outcome = BybitQuery

\* Binance quotes a usable price, the Bybit query times out: the timeout is raised.
C6_Witness ==
    /\ IsGetBestPrice /\ ValidPriceType
    /\ IsReturn(BinanceQuery) /\ env.bybit_price.net = "Timeout"
    /\ outcome = Raise("Timeout", "")

\* C7: when place_order without an exchange gets a failure from
\* get_best_price, it fails with it and places no order on any exchange.
C7_NoOrderWithoutBestPrice ==
    (AutoRouted /\ IsRaise(Resolution)) =>
        (IsRaise(outcome) /\ outcome = Resolution /\ CallsOf("place_order") = {})

\* The Bybit ticker answers 404 while both order endpoints would accept the order.
C7_Witness ==
    /\ AutoRouted /\ IsReturn(BinanceQuery) /\ env.bybit_price.status = 404
    /\ env.binance_order.status = 200 /\ env.bybit_order.status = 200
    /\ outcome = Raise("HTTPError", "404") /\ Len(log) = 3

\* A 200 answer that carries no price: the price field is missing or null
\* (Binance); there is no result at all, or lastPrice is null (Bybit).
BinanceAbsent ==
    /\ env.binance_price.status = 200
    /\ env.binance_price.body \in {EmptyDict, Dict1("price", PyNone)}
BybitAbsent ==
    /\ env.bybit_price.status = 200
    /\ env.bybit_price.body \in
          {EmptyDict, Dict1("result", Dict1("list", PyList(<<Dict1("lastPrice", PyNone)>>)))}
\* A 200 answer whose body carries the decimal string of a price.
BinanceUsable ==
    /\ env.binance_price.status = 200
    /\ \E s \in PriceStrings : env.binance_price.body = Dict1("price", PyStr(s))
BybitUsable ==
    /\ env.bybit_price.status = 200
    /\ \E s \in PriceStrings :
          env.bybit_price.body = Dict1("result", Dict1("list", PyList(<<Dict1("lastPrice", PyStr(s))>>)))

\* The error of selecting among no quotes at all.
NoQuotesAvailable ==
    {Raise("ValueError", "min() arg is an empty sequence"),
     Raise("ValueError", "max() arg is an empty sequence")}

\* C8: when both adapters answer but neither answer carries a usable price,
\* get_best_price fails with the error of an empty set of quotes.
C8_NoQuotesAvailable ==
    (IsGetBestPrice /\ ValidPriceType /\ BinanceAbsent /\ BybitAbsent) =>
        outcome \in NoQuotesAvailable

\* C9: when exactly one adapter's answer carries a usable price and the
\* other's carries none, get_best_price returns that price with that
\* exchange, for 'lowest' and for 'highest'.
C9_SingleQuoteReturned ==
    /\ (IsGetBestPrice /\ ValidPriceType /\ BinanceUsable /\ BybitAbsent) =>
          (IsReturn(outcome) /\ outcome.v = PyTuple(<<BinanceQuery.v, PyStr("Binance")>>))
    /\ (IsGetBestPrice /\ ValidPriceType /\ BinanceAbsent /\ BybitUsable) =>
          (IsReturn(outcome) /\ outcome.v = PyTuple(<<BybitNormalized.v, PyStr("Bybit")>>))

\* C10: place_order with a valid side and an explicit recognized exchange
\* makes exactly one call, place_order(symbol, side, quantity) on that
\* exchange's adapter: no price query, nothing on the other adapter.
C10_ExplicitExchangeOnly ==
    (IsPlaceOrder /\ ValidSide /\ call.exchange \in {PyStr("Binance"), PyStr("Bybit")}) =>
        log = <<CallTo(call.exchange.v, "place_order", <<call.symbol, call.side, call.quantity>>)>>

\* A Buy sent to Bybit explicitly while Binance quotes the lower price.
C10_Witness ==
    /\ IsPlaceOrder /\ call.side = "Buy" /\ call.exchange = PyStr("Bybit")
    /\ Normalized /\ BybitNormalized.v # PyNone /\ BinanceQuery.v.v < BybitNormalized.v.v
    /\ IsReturn(outcome)
    /\ log = <<CallTo("Bybit", "place_order", <<call.symbol, "Buy", call.quantity>>)>>

\* What the adapter called at position i of the trace gave for its order.
AdapterResult(i) ==
    IF log[i].callee = "Binance"
    THEN Binance_place_order(log[i].args[1], log[i].args[2], log[i].args[3], env)
    ELSE Bybit_place_order(log[i].args[1], log[i].args[2], log[i].args[3], env)

\* C11: whenever place_order returns, some adapter's place_order was called
\* and returned, and the value place_order returns is exactly that value.
C11_ReturnsAdapterValue ==
    (IsPlaceOrder /\ IsReturn(outcome)) =>
        /\ CallsOf("place_order") # {}
        /\ \A i \in CallsOf("place_order") : outcome = AdapterResult(i)

\* An auto-routed Sell lands on Bybit and returns Bybit's answer, not Binance's.
C11_Witness ==
    /\ AutoRouted /\ call.side = "Sell" /\ IsReturn(outcome)
    /\ log[Len(log)].callee = "Bybit"
    /\ outcome.v = env.bybit_order.body /\ outcome.v # env.binance_order.body
    /\ env.binance_order.status = 200

\* A 200 answer with a body that lacks a usable price: the top-level field is
\* missing, the nested result list is missing or empty, or the leaf is
\* missing or null.
BinanceLacksPrice ==
    /\ env.binance_price.status = 200
    /\ env.binance_price.body \in {EmptyDict, Dict1("price", PyNone)}
BybitLacksPrice ==
    /\ env.bybit_price.status = 200
    /\ env.bybit_price.body \in
          {EmptyDict, Dict1("result", EmptyDict), Dict1("result", Dict1("list", PyList(<<>>))),
           Dict1("result", Dict1("list", PyList(<<EmptyDict>>))),
           Dict1("result", Dict1("list", PyList(<<Dict1("lastPrice", PyNone)>>)))}
\* The errors of reading a field, an element or a number that is not there.
NormalizationErrors == {"KeyError", "IndexError", "TypeError"}

\* C12: when an adapter answers 200 with a body that lacks a usable price,
\* get_best_price does not fail with an error of reading the missing part.
C12_LackingPriceIsAbsent ==
    (IsGetBestPrice /\ ValidPriceType /\ (BinanceLacksPrice \/ BybitLacksPrice)) =>
        ~(IsRaise(outcome) /\ outcome.v.type \in NormalizationErrors)

\* The prices the two answers carry, as a set of <<number, exchange>>: a
\* usable answer contributes the number its decimal string denotes.
QuotedPrices ==
    (IF BinanceUsable
     THEN {<<ParseFloat(env.binance_price.body.v.price.v), "Binance">>} ELSE {})
    \cup (IF BybitUsable
          THEN {<<ParseFloat(BybitLastPrice(env.bybit_price.body).v.v), "Bybit">>} ELSE {})
\* Both adapters answered 200, each with a price or with a body that lacks one.
BothAnswered ==
    /\ BinanceUsable \/ BinanceLacksPrice
    /\ BybitUsable \/ BybitLacksPrice

\* C1: for every pair of adapter answers of which at least one carries a
\* price, get_best_price('lowest') returns the minimum of the prices carried
\* and get_best_price('highest') the maximum, and the returned exchange is
\* 'Binance' or 'Bybit' and is one whose own answer carries the returned price.
C1_BestPriceIsMinOrMax ==
    (IsGetBestPrice /\ ValidPriceType /\ BothAnswered /\ QuotedPrices # {}) =>
        /\ IsReturn(outcome)
        /\ ReturnedExchange \in {"Binance", "Bybit"}
        /\ <<ReturnedPrice, ReturnedExchange>> \in QuotedPrices
        /\ call.price_type = "lowest" => \A q \in QuotedPrices : ReturnedPrice <= q[1]
        /\ call.price_type = "highest" => \A q \in QuotedPrices : ReturnedPrice >= q[1]

\* Whether a price request, as sent, asks for `symbol`.
CarriesSymbol(request, symbol) ==
    IF request.adapter = "Binance"
    THEN request.params = PyDict([symbol |-> PyStr(symbol)])
    ELSE request.params = PyStr("category=spot&symbol=" \o symbol)
\* The positions of the price requests among the requests sent.
PriceRequests ==
    {i \in DOMAIN wire : wire[i].endpoint \in {"/api/v3/ticker/price", "/v5/market/tickers"}}

\* C13: every price request get_best_price(symbol, ...) sends, to Binance
\* and to Bybit, asks for the symbol get_best_price was given.
C13_QueriesGivenSymbol ==
    IsGetBestPrice => \A i \in PriceRequests : CarriesSymbol(wire[i], call.symbol)

\* Both exchanges report the identical price.
Tie == Normalized /\ BybitNormalized.v # PyNone /\ BybitNormalized.v.v = BinanceQuery.v.v
\* The other selection mode, and what it gives for the same responses.
OtherPriceType == IF call.price_type = "lowest" THEN "highest" ELSE "lowest"
OtherSelection == get_best_price(call.symbol, OtherPriceType, env).out

\* C14 (as stated): at identical prices the exchange get_best_price returns
\* follows one exchange-priority order, so both modes return the same one.
C14_OnePriorityOrder ==
    (IsGetBestPrice /\ ValidPriceType /\ Tie) =>
        (IsReturn(outcome) /\ IsReturn(OtherSelection)
         /\ ReturnedExchange = OtherSelection.v.v[2].v)

\* C14 (amended): at identical prices get_best_price returns that price with
\* an exchange fixed by the mode and the order of the exchange names alone:
\* 'Binance' for 'lowest' and 'Bybit' for 'highest', whatever the responses.
C14_TieBrokenByName ==
    (IsGetBestPrice /\ ValidPriceType /\ Tie) =>
        /\ IsReturn(outcome)
        /\ ReturnedPrice = BinanceQuery.v.v
        /\ ReturnedExchange = (IF call.price_type = "lowest" THEN "Binance" ELSE "Bybit")

\* Both quote the same price, written differently; 'highest' returns Bybit.
C14_Witness ==
    /\ IsGetBestPrice /\ call.price_type = "highest" /\ Tie
    /\ env.binance_price.body.v.price # BybitLastPrice(env.bybit_price.body).v
    /\ IsReturn(outcome) /\ ReturnedExchange = "Bybit"

\* The positions of the order requests among the requests sent.
OrderRequests ==
    {i \in DOMAIN wire : wire[i].endpoint \in {"/api/v3/order", "/v5/order/create"}}
\* The position of the first order placement of the trace.
Dispatched == CHOOSE i \in CallsOf("place_order") : \A j \in CallsOf("place_order") : i <= j

\* C15: when the adapter place_order dispatches to fails, place_order fails
\* with that very error, and that one attempt is the only order placement:
\* nothing is sent to the other exchange and nothing is sent again.
C15_DispatchFailurePropagates ==
    (IsPlaceOrder /\ CallsOf("place_order") # {} /\ IsRaise(AdapterResult(Dispatched))) =>
        /\ outcome = AdapterResult(Dispatched)
        /\ CallsOf("place_order") = {Dispatched}
        /\ Cardinality(OrderRequests) <= 1

\* An auto-routed Buy goes to Binance, which answers 404, while Bybit would accept.
C15_Witness ==
    /\ AutoRouted /\ call.side = "Buy" /\ CallsOf("place_order") # {}
    /\ log[Dispatched].callee = "Binance"
    /\ env.sign = "ok" /\ env.binance_order.status = 404 /\ env.bybit_order.status = 200
    /\ outcome = Raise("HTTPError", "404")

\* The error of a price_type that is neither 'lowest' nor 'highest'.
InvalidPriceType == Raise("ValueError", "Invalid price_type. Use 'lowest' or 'highest'.")

\* C16: get_best_price with a price_type other than 'lowest' or 'highest'
\* fails with the invalid-price_type error, whatever the exchanges answer.
C16_InvalidPriceTypeRejected ==
    (IsGetBestPrice /\ ~ValidPriceType) => outcome = InvalidPriceType

\* A required credential of the adapter is missing or empty, or (Binance) the
\* private key file cannot be found or loaded.
BinanceCredentialMissing ==
    \/ ~Truthy(config.binance_api_key)
    \/ ~Truthy(config.binance_password)
    \/ config.key_file # "ok"
BybitCredentialMissing == ~Truthy(config.bybit_api_key) \/ ~Truthy(config.bybit_api_secret)
\* The construction failed with a ValueError (or a subclass of it).
FailsWithValueError(r) == IsRaise(r) /\ IsValueError(r.v.type)

\* C17: an adapter's construction fails with a ValueError whenever one of its
\* credentials is missing or empty (for Binance also when the key file is
\* not found or not loadable) and succeeds only when all are present; and
\* with any adapter failing there is no client, and no call is ever made.
C17_CredentialsRequired ==
    /\ BinanceCredentialMissing => FailsWithValueError(Binance_init(config))
    /\ BybitCredentialMissing => FailsWithValueError(Bybit_init(config))
    /\ IsReturn(Binance_init(config)) => ~BinanceCredentialMissing
    /\ IsReturn(Bybit_init(config)) => ~BybitCredentialMissing
    /\ (BinanceCredentialMissing \/ BybitCredentialMissing) =>
          /\ client = NoClient /\ FailsWithValueError(outcome)
          /\ call = NoCall /\ log = <<>> /\ wire = <<>>

\* Binance is fully configured, the Bybit secret is empty: no client.
C17_Witness ==
    /\ ~BinanceCredentialMissing /\ IsReturn(Binance_init(config))
    /\ config.bybit_api_key = PyStr("key") /\ config.bybit_api_secret = PyStr("")
    /\ client = NoClient
    /\ outcome = Raise("ValueError", "Secret key password must be set in the .env file")

\* How the exchange answers a request that was sent, and what _send_request
\* of the adapter that sent it makes of the answer.
AnswerTo(request) ==
    CASE request.endpoint = "/api/v3/ticker/price" -> env.binance_price
      [] request.endpoint = "/v5/market/tickers" -> env.bybit_price
      [] request.endpoint = "/api/v3/order" -> env.binance_order
      [] request.endpoint = "/v5/order/create" -> env.bybit_order
SendResult(request) ==
    IF request.adapter = "Binance"
    THEN Binance_send_request(request.method, AnswerTo(request))
    ELSE Bybit_send_request(request.method, AnswerTo(request))

\* C18: for every request an adapter sends, _send_request raises the
\* transport error on a timeout or a connection error, raises the HTTP
\* error on a status outside 2xx, and returns a value only on a 2xx status.
C18_ValueOnlyOn2xx ==
    \A i \in DOMAIN wire :
        /\ AnswerTo(wire[i]).net # "ok" => SendResult(wire[i]) = Raise(AnswerTo(wire[i]).net, "")
        /\ (AnswerTo(wire[i]).net = "ok" /\ AnswerTo(wire[i]).status \notin 200..299) =>
              (IsRaise(SendResult(wire[i])) /\ SendResult(wire[i]).v.type = "HTTPError")
        /\ IsReturn(SendResult(wire[i])) => AnswerTo(wire[i]).status \in 200..299

\* C19: every order request place_order causes carries the symbol and the
\* quantity of the call; on Binance the side is 'BUY' for Buy and 'SELL'
\* for Sell and the type is 'MARKET'; on Bybit the side is as given, the
\* orderType is 'Market' and the quantity is written as its decimal string.
C19_SideMappedPerExchange ==
    IsPlaceOrder =>
        \A i \in OrderRequests :
            /\ call.side \in {"Buy", "Sell"}
            /\ wire[i].params.v.symbol = PyStr(call.symbol)
            /\ wire[i].adapter = "Binance" =>
                  /\ wire[i].params.v.side = PyStr(IF call.side = "Buy" THEN "BUY" ELSE "SELL")
                  /\ wire[i].params.v.type = PyStr("MARKET")
                  /\ wire[i].params.v.quantity = PyInt(call.quantity)
            /\ wire[i].adapter = "Bybit" =>
                  /\ wire[i].params.v.side = PyStr(call.side)
                  /\ wire[i].params.v.orderType = PyStr("Market")
                  /\ wire[i].params.v.qty = PyStr(ToString(call.quantity))

\* A Sell of 1 ETHUSDT sent to Binance explicitly goes out as SELL / MARKET.
C19_Witness ==
    /\ IsPlaceOrder /\ call.side = "Sell" /\ call.exchange = PyStr("Binance")
    /\ call.symbol = "ETHUSDT" /\ call.quantity = 1
    /\ Len(wire) = 1 /\ wire[1].adapter = "Binance" /\ wire[1].endpoint = "/api/v3/order"
    /\ wire[1].params.v.side = PyStr("SELL") /\ wire[1].params.v.symbol = PyStr("ETHUSDT")
    /\ IsReturn(outcome)

\* The exchange of the call is 'Binance' or 'Bybit', given or resolved.
ExchangeResolved ==
    \/ call.exchange \in {PyStr("Binance"), PyStr("Bybit")}
    \/ (call.exchange = PyNone /\ IsReturn(Resolution))

\* C20: with a valid side and a valid exchange, explicit or resolved, the
\* order is placed on the adapter with the quantity of the call whatever
\* its value, zero and negative included, and the outcome is the adapter's.
C20_QuantityNotValidated ==
    (IsPlaceOrder /\ ValidSide /\ ExchangeResolved) =>
        /\ CallsOf("place_order") = {Len(log)}
        /\ log[Len(log)].args[3] = call.quantity
        /\ outcome = AdapterResult(Len(log))
        /\ \A i \in OrderRequests :
              \/ wire[i].adapter = "Binance" /\ wire[i].params.v.quantity = PyInt(call.quantity)
              \/ wire[i].adapter = "Bybit" /\ wire[i].params.v.qty = PyStr(ToString(call.quantity))

\* An auto-routed Buy of -1 is sent to Bybit with qty "-1" and accepted.
C20_Witness ==
    /\ AutoRouted /\ call.side = "Buy" /\ call.quantity = -1 /\ IsReturn(Resolution)
    /\ log[Len(log)] = CallTo("Bybit", "place_order", <<call.symbol, "Buy", -1>>)
    /\ wire[Len(wire)].params.v.qty = PyStr("-1")
    /\ IsReturn(outcome)

\* C22: within one get_best_price call Binance is queried first and Bybit
\* second, each at most once; when the Binance query fails nothing is sent
\* to Bybit, and no query is sent a second time.
C22_QueriesSequentialOnce ==
    IsGetBestPrice =>
        /\ Len(log) >= 1 /\ log[1] = CallTo("Binance", "get_btcusdt_price", <<>>)
        /\ IsRaise(BinanceQuery) => (log = <<log[1]>> /\ wire = <<Binance_price_request>>)
        /\ IsReturn(BinanceQuery) =>
              /\ log = <<log[1], CallTo("Bybit", "get_price", <<call.symbol>>)>>
              /\ wire = <<Binance_price_request, Bybit_price_request(call.symbol)>>
        /\ \A i, j \in PriceQueries : log[i].callee = log[j].callee => i = j

\* The Binance ticker times out while Bybit would quote: Bybit is never asked.
C22_Witness ==
    /\ IsGetBestPrice /\ ValidPriceType
    /\ env.binance_price.net = "Timeout" /\ BybitUsable
    /\ log = <<CallTo("Binance", "get_btcusdt_price", <<>>)>>
    /\ Len(wire) = 1 /\ outcome = Raise("Timeout", "")

\* The positions of the trace at which an order is placed on Binance.
BinanceOrders == {i \in CallsOf("place_order") : log[i].callee = "Binance"}
\* The parameters BinanceClient.place_order signs.
SignedParameters == {"symbol", "side", "type", "quantity", "timestamp"}

\* C23: when an order is placed on Binance and signing fails, the signing
\* error is the outcome and no order request is sent; when signing succeeds
\* exactly one request is sent, a POST to the order endpoint, whose parameters
\* are the five signed ones of this call and the signature over exactly them.
C23_SignBeforeSend ==
    (IsPlaceOrder /\ BinanceOrders # {}) =>
        /\ env.sign = "error" =>
              (outcome = Raise("Exception", "Signing error") /\ OrderRequests = {})
        /\ env.sign = "ok" =>
              /\ Cardinality(OrderRequests) = 1
              /\ \A i \in OrderRequests :
                    /\ wire[i].adapter = "Binance" /\ wire[i].method = "POST"
                    /\ wire[i].endpoint = "/api/v3/order"
                    /\ DOMAIN wire[i].params.v = SignedParameters \cup {"signature"}
                    /\ wire[i].params.v.symbol = PyStr(call.symbol)
                    /\ wire[i].params.v.quantity = PyInt(call.quantity)
                    /\ wire[i].params.v.timestamp = PyInt(env.now)
                    /\ wire[i].params.v.signature =
                          PyStr("signature(" \o Binance_payload(wire[i].params.v) \o ")")

\* Signing fails for a Buy sent to Binance whose order endpoint would accept it.
C23_Witness ==
    /\ IsPlaceOrder /\ call.side = "Buy" /\ call.exchange = PyStr("Binance")
    /\ env.sign = "error" /\ env.binance_order.status = 200
    /\ log = <<CallTo("Binance", "place_order", <<call.symbol, "Buy", call.quantity>>)>>
    /\ wire = <<>> /\ outcome = Raise("Exception", "Signing error")

\* The exchange the order of the call was placed on.
PlacedOn == log[Dispatched].callee

\* C24: at identical prices 'lowest' returns 'Binance' and 'highest' returns
\* 'Bybit'; so a Buy without an exchange is placed on Binance and a Sell
\* without an exchange on Bybit, and nothing is placed on the other one.
C24_TieRoutesByName ==
    Tie =>
        /\ (IsGetBestPrice /\ call.price_type = "lowest") =>
              outcome = Return(PyTuple(<<BinanceQuery.v, PyStr("Binance")>>))
        /\ (IsGetBestPrice /\ call.price_type = "highest") =>
              outcome = Return(PyTuple(<<BinanceQuery.v, PyStr("Bybit")>>))
        /\ (AutoRouted /\ call.side = "Buy") =>
              (CallsOf("place_order") = {Len(log)} /\ PlacedOn = "Binance")
        /\ (AutoRouted /\ call.side = "Sell") =>
              (CallsOf("place_order") = {Len(log)} /\ PlacedOn = "Bybit")

\* Both quote 2; a Sell without an exchange is placed on Bybit and accepted.
C24_Witness ==
    /\ AutoRouted /\ call.side = "Sell" /\ Tie /\ BinanceQuery.v.v = 2
    /\ CallsOf("place_order") # {} /\ PlacedOn = "Bybit"
    /\ outcome = Return(env.bybit_order.body)

\* The spellings of the two sides that differ from 'Buy' and 'Sell' by case only.
OtherCase == {"BUY", "SELL", "buy", "sell"}

\* C25: place_order accepts exactly the strings 'Buy' and 'Sell': 'BUY',
\* 'SELL', 'buy' and 'sell' fail with the invalid-side error before any
\* call is made; and the invalid-side error never comes from the resolution
\* step, which for an accepted side always goes on to get_best_price.
C25_SideExactMatch ==
    IsPlaceOrder =>
        /\ call.side \in OtherCase => (outcome = InvalidSide /\ log = <<>> /\ wire = <<>>)
        /\ outcome = InvalidSide => (call.side \notin {"Buy", "Sell"} /\ log = <<>>)
        /\ (call.side \in {"Buy", "Sell"} /\ call.exchange = PyNone) =>
              (Len(log) >= 1 /\ log[1] = BestPriceCall(call.symbol, WantedPriceType))

\* 'sell' without an exchange is rejected although both exchanges quote and accept.
C25_Witness ==
    /\ IsPlaceOrder /\ call.side = "sell" /\ call.exchange = PyNone
    /\ BinanceUsable /\ BybitUsable
    /\ env.sign = "ok" /\ env.binance_order.status = 200 /\ env.bybit_order.status = 200
    /\ outcome = InvalidSide /\ log = <<>>

\* The exchange names place_order dispatches on.
Registered == {PyStr("Binance"), PyStr("Bybit")}

\* C26: whenever get_best_price returns, the exchange it returns is 'Binance'
\* or 'Bybit'; a place_order without an exchange never fails with the
\* invalid-exchange error, which arises only from an explicit exchange
\* argument that is neither of the two.
C26_ResolvedExchangeValid ==
    /\ (IsGetBestPrice /\ IsReturn(outcome)) => outcome.v.v[2] \in Registered
    /\ (AutoRouted /\ IsReturn(Resolution)) =>
          (Resolution.v.v[2] \in Registered /\ CallsOf("place_order") # {})
    /\ (IsPlaceOrder /\ call.exchange = PyNone) => outcome # InvalidExchange
    /\ (IsPlaceOrder /\ outcome = InvalidExchange) =>
          (call.exchange # PyNone /\ call.exchange \notin Registered)

\* An auto-routed Buy resolves to Binance, whose order endpoint answers 404.
C26_Witness ==
    /\ AutoRouted /\ call.side = "Buy"
    /\ IsReturn(Resolution) /\ Resolution.v.v[2] = PyStr("Binance")
    /\ env.sign = "ok" /\ env.binance_order.status = 404
    /\ outcome = Raise("HTTPError", "404") /\ outcome # InvalidExchange

====
